---- MODULE Spec2Model ----
(***************************************************************************)
(* Model of petridish's Render engine (src/src/render.rs, unix build).     *)
(*                                                                         *)
(* A text (a relative path, a file's content, a symlink target) is a       *)
(* sequence of tokens.  A token is a literal piece of text, a variable     *)
(* expression "{{ v }}" or a malformed expression.  "/" is the one literal *)
(* with a meaning to the path operators.  A path of the filesystem is the  *)
(* sequence of its components from the root, a component being the         *)
(* sequence of literal tokens between two separators.                      *)
(***************************************************************************)
EXTENDS Integers, Sequences, FiniteSets, TLC

VARIABLES tmpl, args, self, fs, fs0, pc, walk_todo, walked, file_contents,
          keys_todo, result, calls

vars == <<tmpl, args, self, fs, fs0, pc, walk_todo, walked, file_contents,
          keys_todo, result, calls>>

---------------------------------------------------------------------------
(* Bounds of the model *)

\* largest number of files and symlinks in a template tree
MaxEntries == 2
\* largest number of paths present under the destination before the call
MaxPre == 2
\* symlinks followed while resolving one path before the lookup fails
MaxLinks == 2

---------------------------------------------------------------------------
(* Texts and the Template Substitution Capability (tera) *)

Lit(a) == <<"lit", a>>
Var(v) == <<"var", v>>
Bad == <<"bad", "{{">>
Sep == Lit("/")

NoFn == [x \in {} |-> x]

RECURSIVE Concat(_)
Concat(ss) == IF ss = <<>> THEN <<>> ELSE Head(ss) \o Concat(Tail(ss))

\* Tera::render_str: parse the whole text, then replace every expression by
\* the value the context gives its variable
render_str(text, context) ==
    IF \E i \in 1..Len(text) : text[i][1] = "bad"
    THEN [ok |-> FALSE, val |-> <<>>]
    ELSE IF \E i \in 1..Len(text) :
                text[i][1] = "var" /\ text[i][2] \notin DOMAIN context
    THEN [ok |-> FALSE, val |-> <<>>]
    ELSE [ok |-> TRUE,
          val |-> Concat([i \in 1..Len(text) |->
                            IF text[i][1] = "var" THEN context[text[i][2]]
                            ELSE <<text[i]>>])]

---------------------------------------------------------------------------
(* std::path *)

starts_with(s, pat) == Len(pat) <= Len(s) /\ SubSeq(s, 1, Len(pat)) = pat

\* str::trim_start_matches: strip the pattern from the front as often as it
\* is there
RECURSIVE trim_start_matches(_, _)
trim_start_matches(s, pat) ==
    IF pat # <<>> /\ starts_with(s, pat)
    THEN trim_start_matches(SubSeq(s, Len(pat) + 1, Len(s)), pat)
    ELSE s

\* Path::join on the texts of two paths: an absolute right side replaces the
\* left side
join(base, rel) ==
    IF rel # <<>> /\ rel[1] = Sep THEN rel
    ELSE IF base = <<>> \/ base[Len(base)] = Sep THEN base \o rel
    ELSE base \o <<Sep>> \o rel

\* Path::components of an absolute or relative text, from the root or the
\* current directory: separators split, empty components vanish
RECURSIVE components(_, _)
components(s, cur) ==
    IF s = <<>> THEN (IF cur = <<>> THEN <<>> ELSE <<cur>>)
    ELSE IF Head(s) = Sep
         THEN (IF cur = <<>> THEN <<>> ELSE <<cur>>) \o components(Tail(s), <<>>)
         ELSE components(Tail(s), Append(cur, Head(s)))

\* Path::parent
parent(p) == SubSeq(p, 1, Len(p) - 1)

---------------------------------------------------------------------------
(* The filesystem under the root: a function from the paths that are there  *)
(* to their nodes.  The root is always a directory.                         *)

Dir == [k |-> "dir", c |-> <<>>]
File(content) == [k |-> "file", c |-> content]
Link(target) == [k |-> "link", c |-> target]

IoOk(f) == [err |-> "ok", fs |-> f]
IoErr(e, f) == [err |-> e, fs |-> f]

\* the outcome of a path lookup: the place the path leads to, or the errno
Found(p) == [err |-> "ok", p |-> p]
NotFound(e) == [err |-> e, p |-> <<>>]

\* the place a symlink with target text t, lying in directory dir, points to
link_dest(dir, t) ==
    IF t # <<>> /\ t[1] = Sep THEN components(t, <<>>)
    ELSE dir \o components(t, <<>>)

\* path resolution of the kernel: every symlink on the way is followed, the
\* last component included; the last component may be missing; ".." leads to
\* the parent of the directory reached so far.  real_step is the lookup of
\* one name in the resolved parent par.
DotDot == <<Lit("..")>>

RECURSIVE real_path(_, _, _)
real_step(f, par, name, n) ==
    IF par.err # "ok" THEN par
    ELSE IF par.p \notin DOMAIN f THEN NotFound("ENOENT")
    ELSE IF f[par.p].k # "dir" THEN NotFound("ENOTDIR")
    ELSE IF name = DotDot THEN Found(parent(par.p))
    ELSE IF Append(par.p, name) \in DOMAIN f /\ f[Append(par.p, name)].k = "link"
    THEN IF n = 0 THEN NotFound("ELOOP")
         ELSE real_path(f, link_dest(par.p, f[Append(par.p, name)].c), n - 1)
    ELSE Found(Append(par.p, name))

real_path(f, p, n) ==
    IF p = <<>> THEN Found(<<>>)
    ELSE real_step(f, real_path(f, parent(p), n), p[Len(p)], n)

\* the place of the entry itself: symlinks are followed in the parent only
lreal_step(f, par, name) ==
    IF par.err # "ok" THEN par
    ELSE IF par.p \notin DOMAIN f THEN NotFound("ENOENT")
    ELSE IF f[par.p].k # "dir" THEN NotFound("ENOTDIR")
    ELSE IF name = DotDot THEN Found(parent(par.p))
    ELSE Found(Append(par.p, name))

lreal_path(f, p) ==
    IF p = <<>> THEN Found(<<>>)
    ELSE lreal_step(f, real_path(f, parent(p), MaxLinks), p[Len(p)])

\* the lookup r led to a node that is there
is_there(f, r) == r.err = "ok" /\ r.p \in DOMAIN f

\* Path::exists: fs::metadata succeeds, symlinks followed
exists(f, p) == is_there(f, real_path(f, p, MaxLinks))

\* Path::is_dir
is_dir_at(f, r) == is_there(f, r) /\ f[r.p].k = "dir"
is_dir(f, p) == is_dir_at(f, real_path(f, p, MaxLinks))

\* what a read of the path returns: the node the path resolves to, and the
\* node at the path itself (symlink_metadata, read_link)
node_at(f, r) == IF is_there(f, r) THEN f[r.p] ELSE [k |-> "none", c |-> <<>>]
read(f, p) == node_at(f, real_path(f, p, MaxLinks))
lread(f, p) == node_at(f, lreal_path(f, p))

put(f, p, node) == [q \in DOMAIN f \cup {p} |-> IF q = p THEN node ELSE f[q]]

\* a node is made at the place r, which must be free
create_at(f, r, node) ==
    IF r.err # "ok" THEN IoErr(r.err, f)
    ELSE IF r.p \in DOMAIN f THEN IoErr("EEXIST", f)
    ELSE IoOk(put(f, r.p, node))

\* mkdir(2)
mkdir(f, p) == create_at(f, lreal_path(f, p), Dir)

\* fs::create_dir_all: mkdir; when the parent is missing, create_dir_all of
\* the parent and mkdir again; a failed mkdir of a directory that is there
\* is a success
RECURSIVE create_dir_all(_, _)
or_is_dir(m, f, p) == IF m.err = "ok" \/ ~is_dir(f, p) THEN m ELSE IoOk(f)
mkdir_again(c, p) == IF c.err # "ok" THEN c ELSE or_is_dir(mkdir(c.fs, p), c.fs, p)
first_mkdir(m, f, p) ==
    IF m.err = "ENOENT" THEN mkdir_again(create_dir_all(f, parent(p)), p)
    ELSE or_is_dir(m, f, p)
create_dir_all(f, p) == first_mkdir(mkdir(f, p), f, p)

\* fs::write: open(O_WRONLY | O_CREAT | O_TRUNC) follows a symlink at the
\* path and writes the file the link points to
write_at(f, r, content) ==
    IF r.err # "ok" THEN IoErr(r.err, f)
    ELSE IF r.p \in DOMAIN f /\ f[r.p].k = "dir" THEN IoErr("EISDIR", f)
    ELSE IoOk(put(f, r.p, File(content)))
write(f, p, content) == write_at(f, real_path(f, p, MaxLinks), content)

\* std::os::unix::fs::symlink(original, link)
symlink(f, original, link) == create_at(f, lreal_path(f, link), Link(original))

---------------------------------------------------------------------------
(* The inputs of one invocation *)

template_path == <<Lit("tests"), Sep, Lit("templates")>>
entry_dir_name == <<Var("project")>>
\* self.output_path
output_path == args.output_path

\* the destinations a caller may name
OutDir == <<Sep, Lit("out")>>
OtherOutDir == <<Sep, Lit("out2")>>
OutputPaths == {OutDir, OtherOutDir}

InEntry(rest) == entry_dir_name \o <<Sep>> \o rest

\* the files and symlinks a template tree is made of: rel is the entry's
\* path below template_path, c a file's content or a symlink's target
fReadme == [rel |-> InEntry(<<Lit("README"), Lit(".md")>>), kind |-> "file",
            c |-> <<Lit("# "), Var("project")>>, utf8 |-> TRUE]
fNamed  == [rel |-> InEntry(<<Var("name"), Lit(".md")>>), kind |-> "file",
            c |-> <<Lit("by "), Var("name")>>, utf8 |-> TRUE]
fNested == [rel |-> InEntry(<<Var("name"), Sep, Var("name"), Lit(".md")>>),
            kind |-> "file", c |-> <<Lit("mod "), Var("name")>>, utf8 |-> TRUE]
fRaw    == [rel |-> InEntry(<<Lit("raw"), Lit(".md")>>), kind |-> "file",
            c |-> <<Lit("keep "), Var("not_a_var")>>, utf8 |-> TRUE]
fBroken == [rel |-> InEntry(<<Lit("notes"), Lit(".md")>>), kind |-> "file",
            c |-> <<Lit("see "), Bad>>, utf8 |-> TRUE]
fBin    == [rel |-> InEntry(<<Lit("logo"), Lit(".png")>>), kind |-> "file",
            c |-> <<>>, utf8 |-> FALSE]
lNamed  == [rel |-> InEntry(<<Var("name"), Lit(".ln")>>), kind |-> "symlink",
            c |-> <<Lit("README"), Lit(".md")>>, utf8 |-> TRUE]
lVar    == [rel |-> InEntry(<<Lit("cur"), Lit(".ln")>>), kind |-> "symlink",
            c |-> <<Var("name"), Lit(".md")>>, utf8 |-> TRUE]
\* a directory that holds no file and no symlink
dEmpty  == [rel |-> InEntry(<<Lit("empty")>>), kind |-> "dir",
            c |-> <<>>, utf8 |-> TRUE]

Entries == {fReadme, fNamed, fNested, fRaw, fBroken, fBin, lNamed, lVar, dEmpty}

\* a template tree: the entry directory may be missing, and then has no
\* entries.  The walk yields a directory that holds entries right before
\* them; only the directories that hold none are entries of their own.  No
\* two entries lie in the same subdirectory, so every order of the entries
\* is an order a directory walk can produce.
Templates ==
    {[entry_dir |-> FALSE, entries |-> {}]} \cup
    {[entry_dir |-> TRUE, entries |-> es] :
        es \in {x \in SUBSET Entries : Cardinality(x) <= MaxEntries}}

Context(project, name) ==
    [v \in {"project", "name"} |-> IF v = "project" THEN project ELSE name]

\* name = alice; name = README, which renders '{{ name }}.md' to README.md;
\* name = README.md, which renders the directory '{{ name }}' to README.md;
\* and a context without name
Contexts ==
    { Context(<<Lit("demo")>>, <<Lit("alice")>>),
      Context(<<Lit("demo")>>, <<Lit("README")>>),
      Context(<<Lit("demo")>>, <<Lit("README"), Lit(".md")>>),
      [v \in {"project"} |-> <<Lit("demo")>>] }

\* values a user can give the project name: empty, absolute, and the parent
\* directory
OddContexts ==
    { Context(<<>>, <<Lit("alice")>>),
      Context(<<Sep, Lit("etc")>>, <<Lit("alice")>>),
      Context(<<Lit("..")>>, <<Lit("alice")>>) }

ExcludeLists ==
    { <<>>, << <<Lit("raw"), Lit(".md")>> >>, << <<Var("name"), Lit(".md")>> >> }

\* what may lie under the destination before the call
InOut(name) == << <<Lit("out")>>, <<Lit("demo")>>, name >>
dReadme == InOut(<<Lit("README"), Lit(".md")>>)
dOther == InOut(<<Lit("other"), Lit(".md")>>)
dAliceLn == InOut(<<Lit("alice"), Lit(".ln")>>)

PreNodes ==
    { <<dReadme, File(<<Lit("old")>>)>>,
      <<dReadme, Link(<<Lit("other"), Lit(".md")>>)>>,
      <<dReadme, Link(<<Lit("alice"), Lit(".md")>>)>>,
      <<dReadme, Dir>>,
      <<dOther, File(<<Lit("mine")>>)>>,
      <<dAliceLn, File(<<Lit("old")>>)>> }

ancestors(p) == {SubSeq(p, 1, n) : n \in 0..(Len(p) - 1)}

mkfs(S) ==
    LET leaves == {x[1] : x \in S}
        dirs == {<<>>} \cup UNION {ancestors(q) : q \in leaves}
    IN [q \in leaves \cup dirs |->
          IF q \in leaves THEN (CHOOSE x \in S : x[1] = q)[2] ELSE Dir]

PreStates ==
    {mkfs(S) : S \in {x \in SUBSET PreNodes :
                        /\ Cardinality(x) <= MaxPre
                        /\ \A a, b \in x : a[1] = b[1] => a = b}}

---------------------------------------------------------------------------
(* Render::new and Render::render *)

\* how the call ended: kind is "Ok", the Error variant returned, or "panic"
\* for an unwrap() that failed; at names the call that failed, path the
\* path the error value carries
NoResult == [kind |-> "none", at |-> "", path |-> <<>>]
Ok == [kind |-> "Ok", at |-> "", path |-> <<>>]
Panic(at) == [kind |-> "panic", at |-> at, path |-> <<>>]
\* Error::RenderError(tera::Error)
RenderError(at) == [kind |-> "RenderError", at |-> at, path |-> <<>>]
\* Error::CannotOverwriteContent(PathBuf)
CannotOverwriteContent(p) ==
    [kind |-> "CannotOverwriteContent", at |-> "exists", path |-> p]

\* the state in which the caller constructs the engine: the template is one
\* of ts, the context one of cs and the destination one of os; the
\* filesystem is the caller's
Start(ts, cs, os) ==
    /\ tmpl \in ts
    /\ args \in [context : cs,
                 overwrite_if_exists : BOOLEAN,
                 skip_if_exists : BOOLEAN,
                 exclude_render_paths : ExcludeLists,
                 output_path : os]
    /\ self = [exclude_render_paths |-> <<>>]
    /\ pc = "new"
    /\ walk_todo = {}
    /\ walked = <<>>
    /\ file_contents = NoFn
    /\ keys_todo = {}
    /\ result = NoResult
    /\ calls = <<>>

Init ==
    /\ Start(Templates, Contexts, {OutDir})
    /\ fs \in PreStates
    /\ fs0 = fs

\* Render::new: the exclusion list is rendered below the entry directory
\* name; a pattern that does not render panics.  rendered holds the outcome
\* of render_str for every pattern.
new_with(rendered) ==
    IF \E i \in DOMAIN rendered : ~rendered[i].ok
    THEN /\ result' = Panic("render_str")
         /\ UNCHANGED <<self, pc, walk_todo>>
    ELSE /\ self' = [exclude_render_paths |->
                        [i \in DOMAIN rendered |-> rendered[i].val]]
         /\ pc' = "walk"
         /\ walk_todo' = IF tmpl.entry_dir THEN tmpl.entries ELSE {}
         /\ UNCHANGED result

New ==
    /\ pc = "new" /\ result = NoResult
    /\ new_with([i \in 1..Len(args.exclude_render_paths) |->
                    render_str(entry_dir_name \o <<Sep>> \o args.exclude_render_paths[i],
                               args.context)])
    /\ UNCHANGED <<tmpl, args, fs, fs0, walked, file_contents, keys_todo, calls>>

\* entry.path() of the walk and the relative path cut out of it
entry_path(e) == join(template_path, e.rel)

\* (variant: the path is taken relative to the entry directory)
relative_path_in_entry(e) ==
    trim_start_matches(
        trim_start_matches(entry_path(e), join(template_path, entry_dir_name)),
        <<Sep>>)

relative_path(e) ==
    trim_start_matches(trim_start_matches(entry_path(e), template_path), <<Sep>>)

\* (variant: the target is passed through the template engine)
read_link_rendered(e) == render_str(e.c, args.context).val

\* fs::read_link(entry.path()): the target of a symlink of the template
read_link(e) == e.c

\* fs::read_to_string(entry.path()): the text of a file of the template
read_to_string(e) == e.c

\* (variant: the path is compared with the patterns as they were given)
is_excluded_unrendered(rendered_path) ==
    \E i \in 1..Len(args.exclude_render_paths) :
        rendered_path = args.exclude_render_paths[i]

\* line 88-91: the rendered relative path is one of exclude_render_paths
is_excluded(rendered_path) ==
    \E i \in 1..Len(self.exclude_render_paths) :
        rendered_path = self.exclude_render_paths[i]

\* (variant: the directory is made at the destination path itself)
ensure_parent_itself(f, dest_path) ==
    IF ~exists(f, dest_path) THEN create_dir_all(f, dest_path)
    ELSE IoOk(f)

\* the parent directory is created when it is not there (lines 78-80, 111-114)
ensure_parent(f, dest_path) ==
    IF ~exists(f, parent(dest_path)) THEN create_dir_all(f, parent(dest_path))
    ELSE IoOk(f)

\* one iteration of the first loop: the outcome for entry e
Keep == [result |-> NoResult, fs |-> fs, file_contents |-> file_contents]

\* lines 81-82: the symlink is made in the destination at once
after_symlink(s) ==
    IF s.err # "ok" THEN [Keep EXCEPT !.result = Panic("symlink"), !.fs = s.fs]
    ELSE [Keep EXCEPT !.fs = s.fs]

\* lines 78-82, d being the outcome of creating the parent directory
walk_symlink(e, d, dest_path) ==
    IF d.err # "ok" THEN [Keep EXCEPT !.result = Panic("create_dir_all"), !.fs = d.fs]
    ELSE after_symlink(symlink(d.fs, read_link(e), dest_path))

\* (variant: a path that is planned already is an error)
insert_rendered_once(rc, dest_path) ==
    IF ~rc.ok THEN [Keep EXCEPT !.result = RenderError("template_content")]
    ELSE IF dest_path \in DOMAIN file_contents
    THEN [Keep EXCEPT !.result = CannotOverwriteContent(dest_path)]
    ELSE [Keep EXCEPT !.file_contents = put(file_contents, dest_path, rc.val)]

\* lines 95-96, rc being the outcome of rendering the content
insert_rendered(rc, dest_path) ==
    IF ~rc.ok THEN [Keep EXCEPT !.result = RenderError("template_content")]
    ELSE [Keep EXCEPT !.file_contents = put(file_contents, dest_path, rc.val)]

\* lines 76-97, rendered_path being the rendered relative path
walk_entry(e, rendered_path, dest_path) ==
    IF e.kind = "symlink"
    THEN IF dest_path = <<>> THEN [Keep EXCEPT !.result = Panic("parent")]
         ELSE walk_symlink(e, ensure_parent(fs, dest_path), dest_path)
    ELSE IF ~e.utf8 THEN [Keep EXCEPT !.result = Panic("read_to_string")]
    ELSE IF is_excluded(rendered_path)
    THEN [Keep EXCEPT !.file_contents =
                          put(file_contents, dest_path, read_to_string(e))]
    ELSE insert_rendered(render_str(read_to_string(e), args.context), dest_path)

\* line 75, rp being the outcome of rendering the relative path
walk_rendered(e, rp) ==
    IF ~rp.ok THEN [Keep EXCEPT !.result = RenderError("relative_path")]
    ELSE walk_entry(e, rp.val, components(join(output_path, rp.val), <<>>))

\* lines 63-65: the walk passes files and symlinks on, directories it drops
is_file_or_symlink(e) == e.kind \in {"file", "symlink"}

walk_step(e) ==
    IF ~is_file_or_symlink(e) THEN Keep
    ELSE walk_rendered(e, render_str(relative_path(e), args.context))

walk_to(o, e) ==
    /\ result' = o.result
    /\ fs' = o.fs
    /\ file_contents' = o.file_contents
    /\ walk_todo' = walk_todo \ {e}
    /\ walked' = Append(walked, e)

Walk ==
    /\ pc = "walk" /\ result = NoResult
    /\ \E e \in walk_todo : walk_to(walk_step(e), e)
    /\ UNCHANGED <<tmpl, args, self, fs0, pc, keys_todo, calls>>

\* the second loop: without -f and -s, a key that exists is an error
Check ==
    /\ pc = "walk" /\ result = NoResult /\ walk_todo = {}
    /\ IF /\ ~args.overwrite_if_exists /\ ~args.skip_if_exists
          /\ \E p \in DOMAIN file_contents : exists(fs, p)
       THEN /\ \E p \in DOMAIN file_contents :
                 exists(fs, p) /\ result' = CannotOverwriteContent(p)
            /\ UNCHANGED <<pc, keys_todo>>
       ELSE /\ pc' = "dump"
            /\ keys_todo' = DOMAIN file_contents
            /\ UNCHANGED result
    /\ UNCHANGED <<tmpl, args, self, fs, fs0, walk_todo, walked, file_contents, calls>>

\* one iteration of the third loop: the outcome for key dest_path
\* line 116, w being the outcome of the write
after_write(w) ==
    IF w.err # "ok" THEN [result |-> Panic("write"), fs |-> w.fs]
    ELSE [result |-> NoResult, fs |-> w.fs]

\* (variant: with skip_if_exists a file that is there is left alone)
dump_write_skip_first(d, dest_path) ==
    IF d.err # "ok" THEN [result |-> Panic("create_dir_all"), fs |-> d.fs]
    ELSE after_write(IF \/ ~exists(d.fs, dest_path)
                        \/ (args.overwrite_if_exists /\ ~args.skip_if_exists)
                     THEN write(d.fs, dest_path, file_contents[dest_path])
                     ELSE IoOk(d.fs))

\* lines 115-117, d being the outcome of creating the parent directory
dump_write(d, dest_path) ==
    IF d.err # "ok" THEN [result |-> Panic("create_dir_all"), fs |-> d.fs]
    ELSE after_write(IF ~exists(d.fs, dest_path) \/ args.overwrite_if_exists
                     THEN write(d.fs, dest_path, file_contents[dest_path])
                     ELSE IoOk(d.fs))

dump_step(dest_path) ==
    IF dest_path = <<>> THEN [result |-> Panic("parent"), fs |-> fs]
    ELSE dump_write(ensure_parent(fs, dest_path), dest_path)

dump_to(o, dest_path) ==
    /\ result' = o.result
    /\ fs' = o.fs
    /\ keys_todo' = keys_todo \ {dest_path}

Dump ==
    /\ pc = "dump" /\ result = NoResult
    /\ \E dest_path \in keys_todo : dump_to(dump_step(dest_path), dest_path)
    /\ UNCHANGED <<tmpl, args, self, fs0, pc, walk_todo, walked, file_contents, calls>>

Finish ==
    /\ pc = "dump" /\ result = NoResult /\ keys_todo = {}
    /\ result' = Ok
    /\ UNCHANGED <<tmpl, args, self, fs, fs0, pc, walk_todo, walked, file_contents,
                   keys_todo, calls>>

Next == New \/ Walk \/ Check \/ Dump \/ Finish

Spec == Init /\ [][Next]_vars

\* one call under any value of the context
InitOdd ==
    /\ Start(Templates, Contexts \cup OddContexts, {OutDir})
    /\ fs \in PreStates
    /\ fs0 = fs
SpecOdd == InitOdd /\ [][Next]_vars

\* one call on a filesystem that holds the template tree itself, below
\* template_path, with the destination either apart from it or TemplateRoot
\* itself; TemplateRoot may hold a directory beside the entry directory
InTemplate(rel) == components(template_path \o <<Sep>> \o rel, <<>>)

template_node(e) ==
    <<InTemplate(e.rel),
      IF e.kind = "file" THEN File(e.c)
      ELSE IF e.kind = "symlink" THEN Link(e.c) ELSE Dir>>

BesideEntryDir ==
    { <<InTemplate(<<Lit("demo"), Sep, Lit("README"), Lit(".md")>>),
        File(<<Lit("sample")>>)>>,
      <<InTemplate(<<Lit("LICENSE")>>), File(<<Lit("MIT")>>)>> }

template_fs(t, S) ==
    mkfs({template_node(e) : e \in t.entries} \cup S
         \cup (IF t.entry_dir THEN {<<InTemplate(entry_dir_name), Dir>>} ELSE {}))

InitInside ==
    /\ Start(Templates, Contexts, {OutDir, template_path})
    /\ fs \in {template_fs(tmpl, S) : S \in SUBSET BesideEntryDir}
    /\ fs0 = fs

SpecInside == InitInside /\ [][Next]_vars

\* the caller, after one call has ended, constructs the engine once more
\* with the same template, context, flags and exclusion list and a
\* destination of its choice, and calls render() again; calls keeps what the
\* call that ended did
Again ==
    /\ result # NoResult /\ calls = <<>>
    /\ calls' = <<[result |-> result, walked |-> walked, fs0 |-> fs0,
                   output_path |-> output_path]>>
    /\ \E o \in OutputPaths : args' = [args EXCEPT !.output_path = o]
    /\ self' = [exclude_render_paths |-> <<>>]
    /\ fs0' = fs
    /\ pc' = "new"
    /\ walk_todo' = {}
    /\ walked' = <<>>
    /\ file_contents' = NoFn
    /\ keys_todo' = {}
    /\ result' = NoResult
    /\ UNCHANGED <<tmpl, fs>>

NextTwice == New \/ Walk \/ Check \/ Dump \/ Finish \/ Again

\* two calls in a row
SpecTwice == Init /\ [][NextTwice]_vars

---------------------------------------------------------------------------
(* Git repositories (src/src/repository.rs).  A uri, a context key and a     *)
(* context value are strings, modelled as sequences of characters.           *)

s_gh == <<"g", "h">>
s_gl == <<"g", "l">>
s_colon == <<":">>
s_slash == <<"/">>
s_dot_git == <<".", "g", "i", "t">>
s_https == <<"h", "t", "t", "p", "s", ":", "/", "/">>
s_http == <<"h", "t", "t", "p", ":", "/", "/">>
s_git_at == <<"g", "i", "t", "@">>
s_plus_https == <<"+", "h", "t", "t", "p", "s">>
s_plus_http == <<"+", "h", "t", "t", "p">>
s_plus_ssh == <<"+", "s", "s", "h">>
s_provider == <<"_", "p", "r", "o", "v", "i", "d", "e", "r">>
s_github_com == <<"g", "i", "t", "h", "u", "b", ".", "c", "o", "m">>
s_gitlab_com == <<"g", "i", "t", "l", "a", "b", ".", "c", "o", "m">>
s_branch == <<"b", "r", "a", "n", "c", "h">>
s_username == <<"u", "s", "e", "r", "n", "a", "m", "e">>
s_password == <<"p", "a", "s", "s", "w", "o", "r", "d">>

\* str::ends_with
ends_with(str, pat) ==
    Len(pat) <= Len(str) /\ SubSeq(str, Len(str) - Len(pat) + 1, Len(str)) = pat

\* str::trim_end_matches: strip the pattern from the end as often as it is
\* there
RECURSIVE trim_end_matches(_, _)
trim_end_matches(str, pat) ==
    IF pat # <<>> /\ ends_with(str, pat)
    THEN trim_end_matches(SubSeq(str, 1, Len(str) - Len(pat)), pat)
    ELSE str

\* str::split(c) .. [0]: what stands before the first c
RECURSIVE split_first(_, _)
split_first(str, c) ==
    IF str = <<>> \/ Head(str) = c THEN <<>>
    ELSE <<Head(str)>> \o split_first(Tail(str), c)

\* str::split(c).last(): what stands after the last c
RECURSIVE split_last(_, _)
split_last(str, c) ==
    IF str = <<>> \/ str[Len(str)] = c THEN <<>>
    ELSE Append(split_last(SubSeq(str, 1, Len(str) - 1), c), str[Len(str)])

\* Regex "^<alias>.*:.*" is_match: the alias in front and a colon after it
is_match_alias(uri, alias) ==
    starts_with(uri, alias) /\ \E i \in (Len(alias) + 1)..Len(uri) : uri[i] = ":"

\* Option<String>
None == <<>>
Some(v) == <<v>>

\* HashMap::remove: the value taken out, and the map that is left
remove(context, key) == IF key \in DOMAIN context THEN Some(context[key]) ELSE None
without(context, key) == [k \in DOMAIN context \ {key} |-> context[k]]

\* the results of Git::try_new
GitOk(name, uri, branch, auth) ==
    [kind |-> "Ok", name |-> name, uri |-> uri, branch |-> branch, auth |-> auth]
\* Error::InvalidRepo { kind, uri }, shown as "invalid <kind> repo: <uri>"
InvalidRepo(kind, uri) == [kind |-> "InvalidRepo", repo |-> kind, uri |-> uri]
\* Error::InvalidGitAliasRepo { alias, provider }
InvalidGitAliasRepo(alias, provider) ==
    [kind |-> "InvalidGitAliasRepo", alias |-> alias, provider |-> provider]
AuthMissingPassword(kind) == [kind |-> "AuthMissingPassword", repo |-> kind]
AuthMissingUsername(kind) == [kind |-> "AuthMissingUsername", repo |-> kind]

\* (variant: the credentials are dropped)
auth_of_none(username, password) == None

\* lines 69-73
auth_of(username, password) ==
    IF username # None /\ password # None
    THEN Some([username |-> username[1], password |-> password[1]])
    ELSE None

\* (variant: the uri is taken as it is)
new_git_unchecked(uri, context) ==
    GitOk(split_last(trim_end_matches(uri, s_dot_git), "/"), uri,
          remove(context, s_branch),
          auth_of(remove(context, s_username), remove(context, s_password)))

\* Git::new_git
new_git(uri, context) ==
    IF remove(context, s_username) # None /\ remove(context, s_password) = None
    THEN AuthMissingPassword("git")
    ELSE IF remove(context, s_username) = None /\ remove(context, s_password) # None
    THEN AuthMissingUsername("git")
    ELSE IF \/ starts_with(uri, s_https) \/ starts_with(uri, s_http)
            \/ starts_with(uri, s_git_at)
    THEN GitOk(split_last(trim_end_matches(uri, s_dot_git), "/"), uri,
               remove(context, s_branch),
               auth_of(remove(context, s_username), remove(context, s_password)))
    ELSE InvalidRepo("git", uri)

\* line 110-112: the provider the context names, or the default
provider_url_of(context, alias, provider_url) ==
    IF remove(context, alias \o s_provider) # None
    THEN remove(context, alias \o s_provider)[1]
    ELSE provider_url

\* (variant: the ssh form is written like the others)
alias_url_slash(head, tail, alias, provider_url) ==
    IF head = alias \/ head = alias \o s_plus_https
    THEN Some(s_https \o provider_url \o s_slash \o tail \o s_dot_git)
    ELSE IF head = alias \o s_plus_http
    THEN Some(s_http \o provider_url \o s_slash \o tail \o s_dot_git)
    ELSE IF head = alias \o s_plus_ssh
    THEN Some(s_git_at \o provider_url \o s_slash \o tail \o s_dot_git)
    ELSE None

\* lines 114-125: the url the head stands for, or none
alias_url(head, tail, alias, provider_url) ==
    IF head = alias \/ head = alias \o s_plus_https
    THEN Some(s_https \o provider_url \o s_slash \o tail \o s_dot_git)
    ELSE IF head = alias \o s_plus_http
    THEN Some(s_http \o provider_url \o s_slash \o tail \o s_dot_git)
    ELSE IF head = alias \o s_plus_ssh
    THEN Some(s_git_at \o provider_url \o s_colon \o tail \o s_dot_git)
    ELSE None

\* lines 105-108
alias_head(alias_uri) == split_first(alias_uri, ":")
alias_tail(alias_uri, head) ==
    trim_end_matches(trim_start_matches(alias_uri, head \o s_colon), s_dot_git)

with_alias_url(url, alias_uri, context, provider) ==
    IF url = None THEN InvalidGitAliasRepo(alias_uri, provider)
    ELSE new_git(url[1], context)

\* Git::new_alias_git
new_alias_git(alias_uri, context, alias, provider, provider_url) ==
    with_alias_url(
        alias_url(alias_head(alias_uri),
                  alias_tail(alias_uri, alias_head(alias_uri)),
                  alias,
                  provider_url_of(context, alias, provider_url)),
        alias_uri, without(context, alias \o s_provider), provider)

\* Git::try_new
try_new(uri, context) ==
    IF is_match_alias(uri, s_gh)
    THEN new_alias_git(uri, context, s_gh, "github", s_github_com)
    ELSE IF is_match_alias(uri, s_gl)
    THEN new_alias_git(uri, context, s_gl, "gitlab", s_gitlab_com)
    ELSE IF ends_with(uri, s_dot_git) THEN new_git(uri, context)
    ELSE InvalidRepo("git", uri)

\* the uris a user may give: alias forms and plain urls, right and wrong
Owners == {<<"r", "u", "s", "t", "-", "l", "a", "n", "g">>, <<"o">>}
Repos == {<<"r", "u", "s", "t">>, <<"r", ".", "s">>}
AliasHeads ==
    {a \o h : a \in {s_gh, s_gl},
              h \in {<<>>, s_plus_https, s_plus_http, s_plus_ssh, <<"+", "f", "t", "p">>}}
AliasUris ==
    {h \o s_colon \o o \o s_slash \o r \o x :
        h \in AliasHeads, o \in Owners, r \in Repos, x \in {<<>>, s_dot_git}}
PlainUris ==
    {p \o <<"a", "b", "c", "/", "h", "e", "l", "l", "o">> \o x :
        p \in {s_https, s_http, s_git_at, <<"h", "t", "t", "p", "x", ":", "/", "/">>, <<"g", "h", "t", "t", "p", "s", ":", "/", "/">>,
               <<"s", "s", "h", ":", "/", "/">>, <<>>},
        x \in {<<>>, s_dot_git}}
Uris == AliasUris \cup PlainUris

\* the contexts of the command line: a branch, credentials, providers
git_value(key) ==
    IF key = s_branch THEN <<"d", "e", "v">>
    ELSE IF key = s_username THEN <<"u", "s", "e", "r", "1">>
    ELSE IF key = s_password THEN <<"a", "b", "c">>
    ELSE IF key = s_gh \o s_provider THEN <<"g", "h", ".", "c", "n">>
    ELSE <<"g", "i", "t", "l", "a", "b", ".", "c", "n", ".", "c", "o", "m">>
GitKeys == {s_branch, s_username, s_password, s_gh \o s_provider, s_gl \o s_provider}
GitContexts == {[k \in K |-> git_value(k)] : K \in SUBSET GitKeys}

\* the other component is at rest
NotRendering ==
    /\ tmpl = [entry_dir |-> FALSE, entries |-> {}]
    /\ self = [exclude_render_paths |-> <<>>]
    /\ fs = mkfs({})
    /\ fs0 = fs
    /\ walk_todo = {}
    /\ walked = <<>>
    /\ file_contents = NoFn
    /\ keys_todo = {}
    /\ calls = <<>>

InitGit ==
    /\ NotRendering
    /\ args \in [uri : Uris, context : GitContexts]
    /\ pc = "try_new"
    /\ result = NoResult

TryNew ==
    /\ pc = "try_new" /\ result = NoResult
    /\ result' = try_new(args.uri, args.context)
    /\ UNCHANGED <<tmpl, args, self, fs, fs0, pc, walk_todo, walked, file_contents,
                   keys_todo, calls>>

NextGit == TryNew

SpecGit == InitGit /\ [][NextGit]_vars

---------------------------------------------------------------------------
(* Template sources (src/src/source.rs).  The template named on the command  *)
(* line is a string of characters; as a path, every character is a literal   *)
(* of the text and "/" the separator.                                        *)

\* PathBuf::from(&str)
RECURSIVE PathBuf_from(_)
PathBuf_from(str) ==
    IF str = <<>> THEN <<>> ELSE <<Lit(Head(str))>> \o PathBuf_from(Tail(str))

petridish_yaml == <<Lit("petridish.yaml")>>
petridish_yml == <<Lit("petridish.yml")>>

\* get_cache_dir: the cache directory of the user, joined with
\* "petridish/templates"
get_cache_dir ==
    join(<<Sep, Lit("cache")>>, <<Lit("petridish"), Sep, Lit("templates")>>)

\* GitSource::get_md5: the digest of the uri, one name per uri
get_md5(git_uri) == <<"md5", git_uri>>

\* TemplateSource::get_cached_source
get_cached_source(git_uri) == join(get_cache_dir, <<get_md5(git_uri)>>)

DirSource(template_dir) == [kind |-> "DirSource", template_dir |-> template_dir]
GitSource(git_uri) == [kind |-> "GitSource", git_uri |-> git_uri]

\* the results of new_source, get_template and get_config
SourceOk(path) == [kind |-> "Ok", path |-> path]
DirNotExists(template) == [kind |-> "DirNotExists", path |-> template]
ConfigNotExists(template) == [kind |-> "ConfigNotExists", path |-> template]
UpdateTemplateFailed(git_uri) == [kind |-> "UpdateTemplateFailed", path |-> git_uri]

\* the outcome of get_template: its result and the filesystem it leaves
Got(r, f) == [result |-> r, fs |-> f]

\* what "git clone -q <uri> <dir>" may leave at dir: nothing when it fails,
\* else a working tree with or without the two config files
CloneTrees ==
    SUBSET { <<petridish_yaml, File(<<Lit("prompts")>>)>>,
             <<petridish_yml, File(<<Lit("prompts")>>)>> }

cloned(f, dir, T) ==
    [q \in DOMAIN f \cup {dir} \cup {Append(dir, x[1]) : x \in T} |->
        IF q = dir THEN Dir
        ELSE IF \E x \in T : q = Append(dir, x[1])
        THEN (CHOOSE x \in T : q = Append(dir, x[1]))[2]
        ELSE f[q]]

\* lines 203-213, d being the outcome of creating the cache directory: the
\* command cannot be started, or it ran
after_cache_dir(d, git_uri, cached_source) ==
    IF d.err # "ok" THEN {Got(Panic("create_dir_all"), d.fs)}
    ELSE {Got(UpdateTemplateFailed(git_uri), d.fs),
          Got(SourceOk(cached_source), d.fs)}
         \cup {Got(SourceOk(cached_source),
                   cloned(d.fs, components(cached_source, <<>>), T)) :
                 T \in CloneTrees}

\* GitSource::get_template
git_get_template(f, git_uri, cached_source) ==
    IF exists(f, components(cached_source, <<>>))
    THEN {Got(SourceOk(cached_source), f)}
    ELSE after_cache_dir(ensure_parent(f, components(cached_source, <<>>)),
                         git_uri, cached_source)

\* TemplateSource::get_template of the two sources: the outcomes it may have
get_template(source, f) ==
    IF source.kind = "DirSource"
    THEN {Got(SourceOk(source.template_dir), f)}
    ELSE git_get_template(f, source.git_uri, get_cached_source(source.git_uri))

\* (variant: petridish.yml is looked for first)
get_config_yml_first(t) ==
    IF t.result.kind # "Ok" THEN t.result
    ELSE IF exists(t.fs, components(join(t.result.path, petridish_yml), <<>>))
    THEN SourceOk(join(t.result.path, petridish_yml))
    ELSE IF exists(t.fs, components(join(t.result.path, petridish_yaml), <<>>))
    THEN SourceOk(join(t.result.path, petridish_yaml))
    ELSE ConfigNotExists(t.result.path)

\* TemplateSource::get_config, t being the outcome of get_template
get_config(t) ==
    IF t.result.kind # "Ok" THEN t.result
    ELSE IF exists(t.fs, components(join(t.result.path, petridish_yaml), <<>>))
    THEN SourceOk(join(t.result.path, petridish_yaml))
    ELSE IF exists(t.fs, components(join(t.result.path, petridish_yml), <<>>))
    THEN SourceOk(join(t.result.path, petridish_yml))
    ELSE ConfigNotExists(t.result.path)

\* line 60-63 of new_source
is_git_uri(template) ==
    /\ ends_with(template, s_dot_git)
    /\ \/ starts_with(template, s_https) \/ starts_with(template, s_http)
       \/ starts_with(template, s_git_at)

\* DirSource::new
DirSource_new(template, f) ==
    IF ~exists(f, components(PathBuf_from(template), <<>>))
    THEN DirNotExists(template)
    ELSE SourceOk(DirSource(PathBuf_from(template)))

\* new_source
new_source(template, f) ==
    IF is_git_uri(template) THEN SourceOk(GitSource(template))
    ELSE DirSource_new(template, f)

\* the templates a user may name: directories that are or are not there,
\* git uris, and strings with only the ending or only the prefix of one
s_a_t == <<"/", "a", "/", "t">>
s_a_b_c == <<"/", "a", "/", "b", "/", "c">>
s_h_r == <<"h", "/", "r">>
TemplateNames ==
    { s_a_t, s_a_b_c, s_a_t \o s_dot_git,
      s_https \o s_h_r \o s_dot_git, s_git_at \o s_h_r \o s_dot_git,
      s_http \o s_h_r }

\* what the filesystem may hold before the call: the template directories,
\* config files in them (a file, a directory, a symlink to nothing), a
\* cached clone, and a file in the place of the cache directory
InDir(str, name) == Append(components(PathBuf_from(str), <<>>), name)
InCache(git_uri) == components(get_cached_source(git_uri), <<>>)

SourceNodes ==
    { <<components(PathBuf_from(s_a_t), <<>>), Dir>>,
      <<components(PathBuf_from(s_a_t \o s_dot_git), <<>>), Dir>>,
      <<InDir(s_a_t, petridish_yaml), File(<<Lit("prompts")>>)>>,
      <<InDir(s_a_t, petridish_yaml), Dir>>,
      <<InDir(s_a_t, petridish_yaml), Link(<<Lit("gone")>>)>>,
      <<InDir(s_a_t, petridish_yml), File(<<Lit("prompts")>>)>>,
      <<InCache(s_https \o s_h_r \o s_dot_git), Dir>>,
      <<Append(InCache(s_https \o s_h_r \o s_dot_git), petridish_yml),
        File(<<Lit("prompts")>>)>>,
      <<components(<<Sep, Lit("cache")>>, <<>>), File(<<>>)>> }

\* the nodes of S make a tree: one node at a path, nothing below a node that
\* is not a directory
IsTree(S) ==
    \A a, b \in S :
        /\ a[1] = b[1] => a = b
        /\ (a # b /\ starts_with(b[1], a[1])) => a[2] = Dir

SourceStates == {mkfs(S) : S \in {x \in SUBSET SourceNodes : IsTree(x)}}

InitSource ==
    /\ tmpl = [entry_dir |-> FALSE, entries |-> {}]
    /\ args \in [template : TemplateNames]
    /\ self = [exclude_render_paths |-> <<>>]
    /\ fs \in SourceStates
    /\ fs0 = fs
    /\ pc = "new_source"
    /\ walk_todo = {}
    /\ walked = <<>>
    /\ file_contents = NoFn
    /\ keys_todo = {}
    /\ result = NoResult
    /\ calls = <<>>

\* main calls new_source with the template of the command line
new_source_to(r) ==
    IF r.kind = "Ok"
    THEN self' = r.path /\ pc' = "get_config" /\ UNCHANGED result
    ELSE result' = r /\ UNCHANGED <<self, pc>>

NewSource ==
    /\ pc = "new_source" /\ result = NoResult
    /\ new_source_to(new_source(args.template, fs))
    /\ UNCHANGED <<tmpl, args, fs, fs0, walk_todo, walked, file_contents,
                   keys_todo, calls>>

\* and get_config of the source it was given; calls keeps what get_template
\* returned
get_config_to(t) ==
    /\ result' = get_config(t)
    /\ fs' = t.fs
    /\ calls' = <<t.result>>

GetConfig ==
    /\ pc = "get_config" /\ result = NoResult
    /\ \E t \in get_template(self, fs) : get_config_to(t)
    /\ UNCHANGED <<tmpl, args, self, fs0, pc, walk_todo, walked, file_contents,
                   keys_todo>>

NextSource == NewSource \/ GetConfig

SpecSource == InitSource /\ [][NextSource]_vars

---------------------------------------------------------------------------
(* Prompt configuration in YAML (src/src/config2.rs).  A document is what    *)
(* the YAML reader hands to serde: the keys of the top level, and for every  *)
(* entry of 'prompts' its name and the values of the keys that select the    *)
(* kind of the prompt.  A value is known by its type.                        *)

\* largest number of entries under 'prompts'
MaxPrompts == 2

\* the values of a key: none, a string, a number, a bool, or a sequence of
\* strings or of numbers; v holds the scalars as they are written
Absent == [t |-> "none", v |-> <<>>]
Str(v) == [t |-> "String", v |-> <<v>>]
Num(v) == [t |-> "Number", v |-> <<v>>]
Bool(v) == [t |-> "bool", v |-> <<IF v THEN "true" ELSE "false">>]
Vec(T) == IF T = "String" THEN "Vec<String>" ELSE "Vec<Number>"
SeqOf(T, v) == [t |-> Vec(T), v |-> v]

\* the character classes of the expression ^[a-zA-Z_$][a-zA-Z_$0-9]*$
Letters ==
    {"a", "b", "c", "d", "e", "f", "g", "h", "i", "j", "k", "l", "m", "n", "o", "p", "q", "r", "s", "t", "u", "v", "w", "x", "y", "z"} \cup
    {"A", "B", "C", "D", "E", "F", "G", "H", "I", "J", "K", "L", "M", "N", "O", "P", "Q", "R", "S", "T", "U", "V", "W", "X", "Y", "Z"}
Digits == {"0", "1", "2", "3", "4", "5", "6", "7", "8", "9"}
NameStart == Letters \cup {"_", "$"}
NameRest == NameStart \cup Digits

\* Regex::is_match of the expression: the whole name, from ^ to $
is_match_name(name) ==
    /\ name # <<>>
    /\ name[1] \in NameStart
    /\ \A i \in 2..Len(name) : name[i] \in NameRest

\* the results of PromptConfig::from_yaml
ConfigOk(config) == [kind |-> "Ok", config |-> config]
ParseFailed == [kind |-> "ParseFailed"]
ValidateFailed(field, error) ==
    [kind |-> "ValidateFailed", field |-> field, error |-> error]

\* (variant: only the first character is looked at)
validate_first(item) ==
    IF ~(item.name # <<>> /\ item.name[1] \in NameStart)
    THEN ValidateFailed("name", "must match '^[a-zA-Z_$][a-zA-Z_$0-9]*$'")
    ELSE [kind |-> "Ok"]

\* PromptItem::validate
validate(item) ==
    IF ~is_match_name(item.name)
    THEN ValidateFailed("name", "must match '^[a-zA-Z_$][a-zA-Z_$0-9]*$'")
    ELSE [kind |-> "Ok"]

\* Option<T>: the key is absent or holds a T
is_option(x, T) == x.t = "none" \/ x.t = T

\* SingleSelect<T>: choices of T, a default of T or none, multi false or none
is_SingleSelect(e, T) ==
    /\ e.choices.t = Vec(T)
    /\ is_option(e.default, T)
    /\ e.multi = Absent \/ e.multi = Bool(FALSE)

\* MultiSelect<T>: choices of T, a default list of T or none, multi true or
\* none
is_MultiSelect(e, T) ==
    /\ e.choices.t = Vec(T)
    /\ is_option(e.default, Vec(T))
    /\ e.multi = Absent \/ e.multi = Bool(TRUE)

\* PromptKind, untagged: the first variant the entry fits, in the order of
\* the enum; none when it fits no variant
PromptKind(e) ==
    IF is_SingleSelect(e, "String") \/ is_SingleSelect(e, "Number")
    THEN Some([variant |-> "SingleSelect", default |-> e.default,
               choices |-> e.choices, multi |-> e.multi])
    ELSE IF is_MultiSelect(e, "String") \/ is_MultiSelect(e, "Number")
    THEN Some([variant |-> "MultiSelect", default |-> e.default,
               choices |-> e.choices, multi |-> e.multi])
    ELSE IF e.confirm = Bool(TRUE) /\ is_option(e.default, "bool")
    THEN Some([variant |-> "Confirm",
               default |-> IF e.default = Absent THEN Bool(FALSE) ELSE e.default,
               choices |-> Absent, multi |-> Absent])
    ELSE IF e.default.t \in {"none", "Number", "String"}
    THEN Some([variant |-> "Default", default |-> e.default,
               choices |-> Absent, multi |-> Absent])
    ELSE None

\* PromptItem of an entry that fits a kind
PromptItem(e) == [name |-> e.name, kind |-> PromptKind(e)[1]]

default_entry_dir == <<Var("repo_name")>>

\* serde_yaml::from_str::<PromptConfig>: the keys are 'prompts' and
\* 'entry_dir' and no other, 'prompts' is there, every entry fits a kind
from_str(doc) ==
    IF \/ doc.unknown_field
       \/ doc.prompts = None
       \/ \E i \in 1..Len(doc.prompts[1]) : PromptKind(doc.prompts[1][i]) = None
    THEN ParseFailed
    ELSE ConfigOk([prompts |-> [i \in 1..Len(doc.prompts[1]) |->
                                   PromptItem(doc.prompts[1][i])],
                   entry_dir |-> default_entry_dir])

\* lines 41-45: the prompts are validated in order, the first failure is
\* returned
RECURSIVE validate_from(_, _)
validate_from(config, i) ==
    IF i > Len(config.prompts) THEN ConfigOk(config)
    ELSE IF validate(config.prompts[i]).kind # "Ok" THEN validate(config.prompts[i])
    ELSE validate_from(config, i + 1)

from_yaml_parsed(parsed) ==
    IF parsed.kind # "Ok" THEN parsed ELSE validate_from(parsed.config, 1)

\* PromptConfig::from_yaml
from_yaml(doc) == from_yaml_parsed(from_str(doc))

\* the names and the entries a config file may hold
PromptNames ==
    { <<"y", "o", "u", "r", "_", "n", "a", "m", "e">>, <<"y", "o", "u", "r", "-", "n", "a", "m", "e">>,
      <<"_", "a", "1">>, <<"$", "x">>, <<"9", "a">>, <<>> }

Entry(name, default, choices, multi, confirm) ==
    [name |-> name, default |-> default, choices |-> choices,
     multi |-> multi, confirm |-> confirm]

\* only a name; a select; a multi select; a confirm; and two entries that
\* fit no kind: a list as default without choices, and a bool as default
\* with confirm = false
EntryShapes ==
    { [default |-> Absent, choices |-> Absent, multi |-> Absent, confirm |-> Absent],
      [default |-> Str("Peter"), choices |-> SeqOf("String", <<"Peter", "Alice">>),
       multi |-> Bool(FALSE), confirm |-> Absent],
      [default |-> SeqOf("Number", <<"1">>), choices |-> SeqOf("Number", <<"1", "2">>),
       multi |-> Bool(TRUE), confirm |-> Absent],
      [default |-> Absent, choices |-> Absent, multi |-> Absent, confirm |-> Bool(TRUE)],
      [default |-> SeqOf("String", <<"Peter">>), choices |-> Absent,
       multi |-> Absent, confirm |-> Absent],
      [default |-> Bool(TRUE), choices |-> Absent, multi |-> Absent,
       confirm |-> Bool(FALSE)] }

PromptEntries ==
    {Entry(n, sh.default, sh.choices, sh.multi, sh.confirm) :
        n \in PromptNames, sh \in EntryShapes}

SeqsUpTo(S, n) == UNION {[1..k -> S] : k \in 0..n}

YamlDocs ==
    [unknown_field : BOOLEAN,
     prompts : {None} \cup {Some(ps) : ps \in SeqsUpTo(PromptEntries, MaxPrompts)}]

InitConfig ==
    /\ NotRendering
    /\ args \in [yaml : YamlDocs]
    /\ pc = "from_yaml"
    /\ result = NoResult

FromYaml ==
    /\ pc = "from_yaml" /\ result = NoResult
    /\ result' = from_yaml(args.yaml)
    /\ UNCHANGED <<tmpl, args, self, fs, fs0, pc, walk_todo, walked, file_contents,
                   keys_todo, calls>>

NextConfig == FromYaml

SpecConfig == InitConfig /\ [][NextConfig]_vars

---------------------------------------------------------------------------
(* Prompt entries in TOML (src/src/config.rs).  An entry is what the TOML    *)
(* reader hands to serde: the tag 'type', the name, and the values of        *)
(* 'choices', 'multi' and 'default', each known by its type.                 *)

\* the element type of the prompts of a tag: StringPrompt holds String,
\* NumberPrompt f64
ElementOf(type) == IF type = "string" THEN "String" ELSE "Number"

\* MultiSelect<T>: multi is the literal true; name and choices are there; a
\* default is a list
fits_MultiSelect(e, T) ==
    /\ e.multi = Bool(TRUE)
    /\ e.name.t = "String"
    /\ e.choices.t = Vec(T)
    /\ is_option(e.default, Vec(T))

\* Select<T>: name and choices are there; a default is one T; other keys are
\* passed over
fits_Select(e, T) ==
    /\ e.name.t = "String"
    /\ e.choices.t = Vec(T)
    /\ is_option(e.default, T)

\* StringInput, NumberInput: the name is there; a default is one T
fits_Input(e, T) ==
    /\ e.name.t = "String"
    /\ is_option(e.default, T)

\* Confirm: the name is there; a default is a bool
fits_Confirm(e) ==
    /\ e.name.t = "String"
    /\ is_option(e.default, "bool")

Prompt(type, variant, e, default) ==
    [kind |-> "Ok", type |-> type, variant |-> variant, name |-> e.name,
     default |-> default]
TomlError == [kind |-> "toml::de::Error"]

\* StringPrompt and NumberPrompt, untagged: the first variant the entry
\* fits, in the order of the enum
untagged_prompt(e, type, T) ==
    IF fits_MultiSelect(e, T) THEN Prompt(type, "MultiSelect", e, e.default)
    ELSE IF fits_Select(e, T) THEN Prompt(type, "Select", e, e.default)
    ELSE IF fits_Input(e, T) THEN Prompt(type, "Input", e, e.default)
    ELSE TomlError

\* BoolPrompt: Confirm, whose default is false when none is given
BoolPrompt(e) ==
    IF fits_Confirm(e)
    THEN Prompt("bool", "Confirm", e,
                IF e.default = Absent THEN Bool(FALSE) ELSE e.default)
    ELSE TomlError

\* PromptType, tagged by 'type'
PromptType(e) ==
    IF e.type \in {"string", "number"}
    THEN untagged_prompt(e, e.type, ElementOf(e.type))
    ELSE IF e.type = "bool" THEN BoolPrompt(e)
    ELSE TomlError

\* the entries a config file may hold
TomlEntries ==
    [type : {"string", "number", "bool", "text"},
     name : {Str("var"), Absent},
     choices : {Absent, SeqOf("String", <<"a", "b">>), SeqOf("Number", <<"10", "20">>)},
     multi : {Absent, Bool(TRUE), Bool(FALSE)},
     default : {Absent, Str("a"), Num("10"), Bool(TRUE),
                SeqOf("String", <<"a">>), SeqOf("Number", <<"10">>)}]

InitToml ==
    /\ NotRendering
    /\ args \in [entry : TomlEntries]
    /\ pc = "toml::from_str"
    /\ result = NoResult

FromToml ==
    /\ pc = "toml::from_str" /\ result = NoResult
    /\ result' = PromptType(args.entry)
    /\ UNCHANGED <<tmpl, args, self, fs, fs0, pc, walk_todo, walked, file_contents,
                   keys_todo, calls>>

NextToml == FromToml

SpecToml == InitToml /\ [][NextToml]_vars

---------------------------------------------------------------------------
(* Vocabulary of the properties *)

Done == result.kind # "none"
EmptyDestination == fs0 = mkfs({})
FailPolicy == ~args.overwrite_if_exists /\ ~args.skip_if_exists
SkipExistingPolicy == args.skip_if_exists /\ ~args.overwrite_if_exists

\* the Template Substitution Capability under the Context of the call
subst(text) == render_str(text, args.context)

\* DestinationRoot/subst(p) for the entry's relative path p
DestOf(e) == components(output_path \o <<Sep>> \o subst(e.rel).val, <<>>)

FileEntries == {e \in tmpl.entries : e.kind = "file"}
LinkEntries == {e \in tmpl.entries : e.kind = "symlink"}

\* the entry's relative path is, in the template, the entry directory name
\* followed by a pattern of the exclusion list
Listed(e) ==
    \E i \in 1..Len(args.exclude_render_paths) :
        e.rel = InEntry(args.exclude_render_paths[i])

\* the entry's templated relative path matches a templated pattern
Excluded(e) ==
    \E i \in 1..Len(args.exclude_render_paths) :
        LET x == subst(InEntry(args.exclude_render_paths[i])) IN
        x.ok /\ subst(e.rel).ok /\ subst(e.rel).val = x.val

ExclusionsRender ==
    \A i \in 1..Len(args.exclude_render_paths) :
        subst(InEntry(args.exclude_render_paths[i])).ok

\* every entry can be planned: paths and contents render, files are text
PlanBuilds ==
    /\ ExclusionsRender
    /\ \A e \in tmpl.entries :
         /\ subst(e.rel).ok
         /\ e.kind = "file" => e.utf8 /\ (Excluded(e) \/ subst(e.c).ok)

\* the content the plan gives a file entry
Planned(e) == IF Excluded(e) THEN e.c ELSE subst(e.c).val

\* the place a destination path names when the call begins: symlinks that
\* are there are followed
place_of(r, p) == IF r.err = "ok" THEN r.p ELSE p
Place(p) == place_of(real_path(fs0, p, MaxLinks), p)

\* two entries clash: they are rendered to the same place, or one to a place
\* below the other
Clash(a, b) ==
    \/ starts_with(DestOf(a), DestOf(b)) \/ starts_with(DestOf(b), DestOf(a))
    \/ starts_with(Place(DestOf(a)), Place(DestOf(b)))
    \/ starts_with(Place(DestOf(b)), Place(DestOf(a)))

\* no two files or symlinks of the template clash
NoClash ==
    \A a, b \in FileEntries \cup LinkEntries : a # b => ~Clash(a, b)

---------------------------------------------------------------------------
(* C1..C10: conflict policies, failures and fidelity of one render() *)

\* C1: Fail policy is all-or-nothing: when a planned destination path (of a
\* file or a symlink) exists before the call, render() without -f and -s
\* returns the destination-conflict error and leaves the destination as it
\* was
C1_FailAllOrNothing ==
    (/\ FailPolicy /\ PlanBuilds /\ Done
     /\ \E e \in tmpl.entries : exists(fs0, DestOf(e)))
    => (result.kind = "CannotOverwriteContent" /\ fs = fs0)

\* C2: a templating failure leaves no partial output: when render() returns
\* the templating error, no destination path has been created or modified
C2_TemplatingFailureNoOutput ==
    result.kind = "RenderError" => fs = fs0

\* C3: Overwrite replaces exactly the planned set: after a successful
\* render() with overwrite_if_exists, every planned path holds its rendered
\* content and every file that was there outside the plan is as before
C3_OverwriteExactlyPlanned ==
    (args.overwrite_if_exists /\ result = Ok)
    => /\ \A p \in DOMAIN file_contents : read(fs, p) = File(file_contents[p])
       /\ \A q \in DOMAIN fs0 :
            (fs0[q].k = "file" /\ q \notin DOMAIN file_contents)
            => (q \in DOMAIN fs /\ fs[q] = fs0[q])

\* C4: SkipExisting: with skip_if_exists and without overwrite_if_exists,
\* render() does not abort because planned paths exist, a planned path that
\* was there keeps what it held, and one that was not holds its rendered
\* content afterwards
C4_SkipExisting ==
    (SkipExistingPolicy /\ PlanBuilds /\ Done)
    => /\ result = Ok
       /\ \A e \in FileEntries :
            IF exists(fs0, DestOf(e))
            THEN read(fs, DestOf(e)) = read(fs0, DestOf(e))
            ELSE \E o \in FileEntries :
                    DestOf(o) = DestOf(e) /\ read(fs, DestOf(e)) = File(Planned(o))

C6_SymlinkFidelity ==
    result = Ok =>
        \A e \in LinkEntries : lread(fs, DestOf(e)) = Link(e.c)

\* a symlink whose path holds an expression and a symlink whose target text
\* holds an expression were both recreated
C6_Witness ==
    /\ result = Ok
    /\ tmpl.entries = {lNamed, lVar}
    /\ subst(lVar.c).ok /\ subst(lVar.c).val # lVar.c
    /\ lread(fs, InOut(<<Lit("alice"), Lit(".ln")>>)) = Link(<<Lit("README"), Lit(".md")>>)
    /\ lread(fs, InOut(<<Lit("cur"), Lit(".ln")>>)) = Link(<<Var("name"), Lit(".md")>>)

\* C7 as stated: after a successful render() into an empty destination,
\* every regular, non-excluded file with relative path p and content c is
\* at DestinationRoot/subst(p) with content subst(c)
C7_PathAndContentTemplating ==
    (EmptyDestination /\ result = Ok) =>
        \A e \in FileEntries :
            ~Excluded(e) => read(fs, DestOf(e)) = File(subst(e.c).val)

\* C7 amended: the same when no two entries of the template are rendered
\* to the same path or one below the other
C7_PathAndContentTemplatingNoClash ==
    (EmptyDestination /\ result = Ok /\ NoClash) =>
        \A e \in FileEntries :
            ~Excluded(e) => read(fs, DestOf(e)) = File(subst(e.c).val)

\* one variable renamed a directory and the file beneath it
C7_Witness ==
    /\ EmptyDestination /\ result = Ok
    /\ fNested \in tmpl.entries /\ ~Excluded(fNested) /\ NoClash
    /\ Cardinality(FileEntries) = 2
    /\ DestOf(fNested) = << <<Lit("out")>>, <<Lit("demo")>>, <<Lit("alice")>>,
                            <<Lit("alice"), Lit(".md")>> >>
    /\ read(fs, DestOf(fNested)) = File(<<Lit("mod "), Lit("alice")>>)

\* C8: atomic commit: when a write fails part-way through materialization,
\* the destination holds none of the planned entries of this call
C8_AtomicCommit ==
    (result.kind = "panic" /\ result.at \in {"write", "create_dir_all"} /\ pc = "dump")
    => \A e \in tmpl.entries :
          subst(e.rel).ok =>
             /\ lread(fs, DestOf(e)) = lread(fs0, DestOf(e))
             /\ read(fs, DestOf(e)) = read(fs0, DestOf(e))

\* C9: check-then-commit: under Fail and SkipExisting nothing is created or
\* written in the destination before the check over the whole plan is
\* done, and a path reported as colliding was there when the call began
C9_CheckThenCommit ==
    /\ (~args.overwrite_if_exists /\ pc = "walk") => fs = fs0
    /\ result.kind = "CannotOverwriteContent" => exists(fs0, result.path)

\* C10: every failure is returned as a typed error value; none ends the
\* call by a panic
C10_FailuresAreTypedErrors ==
    result.kind # "panic"

---------------------------------------------------------------------------
(* C11..C18: the entry directory, the destination root and the frame *)

\* the tree below a directory: the relative paths and what lies at them
TreeAt(f, root) ==
    {<<SubSeq(p, Len(root) + 1, Len(p)), f[p]>> :
        p \in {q \in DOMAIN f : starts_with(q, root) /\ q # root}}

\* C11: a missing entry directory is fatal: when TemplateRoot/EntryDirectoryName
\* does not exist, the call does not end in success with nothing rendered
C11_MissingEntryDirFatal ==
    ~tmpl.entry_dir => result # Ok

\* C12: determinism: two calls with the same template (read in the same
\* order), entry directory name, context and exclusion list into two
\* different destinations, both empty before their call, leave trees with
\* the same relative paths, file contents and symlink targets
C12_Determinism ==
    (/\ Len(calls) = 1 /\ Done
     /\ output_path # calls[1].output_path
     /\ walked = calls[1].walked
     /\ TreeAt(calls[1].fs0, components(calls[1].output_path, <<>>)) = {}
     /\ TreeAt(fs0, components(output_path, <<>>)) = {})
    => TreeAt(fs, components(output_path, <<>>))
         = TreeAt(fs, components(calls[1].output_path, <<>>))

\* C13: a templating error returned by render() identifies the relative
\* path of the template entry whose path or content failed to render
C13_TemplatingErrorNamesPath ==
    result.kind = "RenderError"
    => (walked # <<>> /\ result.path = relative_path(walked[Len(walked)]))

\* the rendered entry directory below DestinationRoot
RenderedEntryDir ==
    components(output_path, <<>>) \o components(subst(entry_dir_name).val, <<>>)

\* the call created the node at p or changed it
Touched(p) == p \in DOMAIN fs /\ (p \notin DOMAIN fs0 \/ fs[p] # fs0[p])

\* C14: every path render() creates, writes or replaces lies under
\* DestinationRoot inside the rendered entry directory (or is that directory
\* or one above it, made on the way), for every value of the context
C14_StaysInsideDestination ==
    \A p \in DOMAIN fs :
        Touched(p) =>
            \/ starts_with(p, RenderedEntryDir)
            \/ starts_with(RenderedEntryDir, p)

\* C15: a context under which the entry directory name renders to the
\* empty string never leads to a file being written
C15_EntryDirNameNonEmpty ==
    (subst(entry_dir_name).ok /\ subst(entry_dir_name).val = <<>>)
    => \A p \in DOMAIN fs : Touched(p) => fs[p].k # "file"

DestinationRoot == components(output_path, <<>>)

\* C16: every successful render() creates DestinationRoot, missing parent
\* directories included, when it was not there before the call, also when
\* nothing is planned
C16_DestinationRootCreated ==
    (result = Ok /\ tmpl.entry_dir /\ ~exists(fs0, DestinationRoot))
    => is_dir(fs, DestinationRoot)

\* C17: directories are not enumerated: a directory the call made is an
\* ancestor of the rendered path of a file or symlink of the template, after
\* a successful call every such ancestor is a directory, and a template
\* directory that holds no file or symlink has no counterpart
C17_DirectoriesImplied ==
    /\ \A p \in DOMAIN fs :
         (fs[p].k = "dir" /\ p \notin DOMAIN fs0)
         => \E e \in FileEntries \cup LinkEntries :
               subst(e.rel).ok /\ p \in ancestors(DestOf(e))
    /\ result = Ok =>
         \A e \in FileEntries \cup LinkEntries :
            \A a \in ancestors(DestOf(e)) : is_dir(fs, a)
    /\ \A e \in tmpl.entries :
         (e.kind = "dir" /\ subst(e.rel).ok) => DestOf(e) \notin DOMAIN fs

\* a template with an empty directory and a file in a subdirectory was
\* rendered: the subdirectory is there, the empty directory is not
C17_Witness ==
    /\ result = Ok
    /\ tmpl.entries = {dEmpty, fNested}
    /\ fs0 = mkfs({})
    /\ is_dir(fs, InOut(<<Lit("alice")>>))
    /\ read(fs, DestOf(fNested)).k = "file"
    /\ DestOf(dEmpty) = InOut(<<Lit("empty")>>)
    /\ ~exists(fs, DestOf(dEmpty))

\* C18: TemplateRoot is read-only: whatever lay under TemplateRoot before
\* the call lies there unchanged afterwards, also when DestinationRoot is
\* TemplateRoot
C18_TemplateRootReadOnly ==
    \A p \in DOMAIN fs0 :
        starts_with(p, components(template_path, <<>>))
        => (p \in DOMAIN fs /\ fs[p] = fs0[p])

---------------------------------------------------------------------------
(* C19, C20: Git::try_new *)

\* the context holds both of username and password, or neither
CredentialsPaired ==
    (s_username \in DOMAIN args.context) <=> (s_password \in DOMAIN args.context)

\* the host of alias a: the context's '<a>_provider' when it has one, else
\* the default host
DefaultHost(a) == IF a = s_gh THEN s_github_com ELSE s_gitlab_com
HostOf(a) ==
    IF (a \o s_provider) \in DOMAIN args.context
    THEN args.context[a \o s_provider] ELSE DefaultHost(a)

\* what C19 says the alias uri with scheme part sch stands for
Resolved(a, sch, owner, repo) ==
    IF sch = s_plus_ssh
    THEN s_git_at \o HostOf(a) \o s_colon \o owner \o s_slash \o repo \o s_dot_git
    ELSE (IF sch = s_plus_http THEN s_http ELSE s_https)
         \o HostOf(a) \o s_slash \o owner \o s_slash \o repo \o s_dot_git

\* C19: git alias resolution: 'a:<owner>/<repo>' and 'a+https:<owner>/<repo>'
\* stand for 'https://h/<owner>/<repo>.git', 'a+http:' for 'http://h/...' and
\* 'a+ssh:' for 'git@h:<owner>/<repo>.git', h being the default host of a or
\* the context's '<a>_provider'; the name is <repo>; and try_new returns the
\* repository whenever the credentials of the context are paired
C19_GitAliasResolution ==
    \A a \in {s_gh, s_gl}, sch \in {<<>>, s_plus_https, s_plus_http, s_plus_ssh},
       owner \in Owners, repo \in Repos :
        (/\ pc = "try_new" /\ Done
         /\ args.uri = a \o sch \o s_colon \o owner \o s_slash \o repo)
        => /\ CredentialsPaired => result.kind = "Ok"
           /\ result.kind = "Ok" =>
                /\ result.uri = Resolved(a, sch, owner, repo)
                /\ result.name = repo

\* the test of the overridden provider: 'gl+ssh:rust-lang/rust' with
\* gl_provider = gitlab.cn.com
C19_Witness ==
    /\ pc = "try_new" /\ result.kind = "Ok"
    /\ args.uri = s_gl \o s_plus_ssh \o s_colon \o <<"r", "u", "s", "t", "-", "l", "a", "n", "g", "/", "r", "u", "s", "t">>
    /\ (s_gl \o s_provider) \in DOMAIN args.context
    /\ result.uri = <<"g", "i", "t", "@", "g", "i", "t", "l", "a", "b", ".", "c", "n", ".", "c", "o", "m", ":", "r", "u", "s", "t", "-", "l", "a", "n", "g", "/", "r", "u", "s", "t", ".", "g", "i", "t">>
    /\ result.name = <<"r", "u", "s", "t">>

\* an alias uri: 'gh' or 'gl' in front and a colon somewhere after it
IsAlias(uri) ==
    /\ starts_with(uri, s_gh) \/ starts_with(uri, s_gl)
    /\ \E i \in 3..Len(uri) : uri[i] = ":"

HasGitPrefix(uri) ==
    starts_with(uri, s_https) \/ starts_with(uri, s_http) \/ starts_with(uri, s_git_at)

\* C20 as stated: try_new returns InvalidRepo ("invalid git repo: <uri>") for
\* every uri that ends with '.git', is not an alias and does not start with
\* 'https://', 'http://' or 'git@'; and the uri of every repository it
\* returns starts with one of the three
C20_InvalidGitRepo ==
    (pc = "try_new" /\ Done)
    => /\ (/\ ends_with(args.uri, s_dot_git) /\ ~IsAlias(args.uri)
            /\ ~HasGitPrefix(args.uri))
           => result = InvalidRepo("git", args.uri)
       /\ result.kind = "Ok" => HasGitPrefix(result.uri)

\* C20 amended: the same for the contexts that hold both or neither of
\* username and password
C20_InvalidGitRepoPaired ==
    (pc = "try_new" /\ Done)
    => /\ (/\ ends_with(args.uri, s_dot_git) /\ ~IsAlias(args.uri)
            /\ ~HasGitPrefix(args.uri) /\ CredentialsPaired)
           => result = InvalidRepo("git", args.uri)
       /\ result.kind = "Ok" => HasGitPrefix(result.uri)

\* the test of the invalid repo: 'httpx://abc/hello.git'
C20_Witness ==
    /\ pc = "try_new"
    /\ args.uri = <<"h", "t", "t", "p", "x", ":", "/", "/", "a", "b", "c", "/", "h", "e", "l", "l", "o", ".", "g", "i", "t">>
    /\ result = InvalidRepo("git", args.uri)

---------------------------------------------------------------------------
(* C21: template sources *)

\* the template directory of the source new_source returned
TemplateOf(source) ==
    IF source.kind = "DirSource" THEN source.template_dir
    ELSE get_cached_source(source.git_uri)

ThereIs(text) == exists(fs, components(text, <<>>))

\* what C21 says get_config returns for the template directory t
ConfigOf(t) ==
    IF ThereIs(join(t, petridish_yaml)) THEN SourceOk(join(t, petridish_yaml))
    ELSE IF ThereIs(join(t, petridish_yml)) THEN SourceOk(join(t, petridish_yml))
    ELSE ConfigNotExists(t)

\* new_source on a string that is not a git uri and names no path that is
\* there fails with DirNotExists
MissingDirFails ==
    (/\ pc \in {"new_source", "get_config"}
     /\ ~(ends_with(args.template, s_dot_git) /\ HasGitPrefix(args.template))
     /\ ~exists(fs0, components(PathBuf_from(args.template), <<>>)))
    => /\ pc = "new_source"
       /\ Done => result = DirNotExists(args.template)

\* C21 as stated: get_config returns <template>/petridish.yaml when it
\* exists, otherwise <template>/petridish.yml when that exists, otherwise
\* ConfigNotExists naming the template directory; and new_source on a
\* non-git string whose path does not exist fails with DirNotExists
C21_ConfigLookup ==
    /\ (pc = "get_config" /\ Done) => result = ConfigOf(TemplateOf(self))
    /\ MissingDirFails

\* C21 amended: the same whenever get_template has returned the template
\* directory, as it does for every directory source
C21_ConfigLookupOfTemplate ==
    /\ (pc = "get_config" /\ Done /\ calls[1].kind = "Ok")
       => (calls[1].path = TemplateOf(self) /\ result = ConfigOf(TemplateOf(self)))
    /\ (pc = "get_config" /\ Done /\ self.kind = "DirSource") => calls[1].kind = "Ok"
    /\ MissingDirFails

\* a template directory that holds both config files gave petridish.yaml
C21_Witness ==
    /\ pc = "get_config" /\ self = DirSource(PathBuf_from(s_a_t))
    /\ read(fs, InDir(s_a_t, petridish_yaml)).k = "file"
    /\ read(fs, InDir(s_a_t, petridish_yml)).k = "file"
    /\ result = SourceOk(join(PathBuf_from(s_a_t), petridish_yaml))

---------------------------------------------------------------------------
(* C22: prompt names *)

PromptsOf(doc) == IF doc.prompts = None THEN <<>> ELSE doc.prompts[1]

\* the name matches ^[a-zA-Z_$][a-zA-Z_$0-9]*$
Matches(name) ==
    /\ Len(name) >= 1
    /\ \A i \in 1..Len(name) :
         \/ name[i] \in Letters \cup {"_", "$"}
         \/ i > 1 /\ name[i] \in Digits

SomeNameFails == \E i \in 1..Len(PromptsOf(args.yaml)) : ~Matches(PromptsOf(args.yaml)[i].name)

\* the text is a PromptConfig to serde
Deserializes == from_str(args.yaml).kind = "Ok"

\* C22 as stated: from_yaml returns ValidateFailed with field 'name' whenever
\* the name of any prompt does not match the expression, and returns a
\* config only when the name of every prompt matches it
C22_PromptNamesValidated ==
    (pc = "from_yaml" /\ Done)
    => /\ SomeNameFails => (result.kind = "ValidateFailed" /\ result.field = "name")
       /\ result.kind = "Ok" => ~SomeNameFails

\* C22 amended: the same for every text that deserializes into a
\* PromptConfig
C22_PromptNamesValidatedParsed ==
    (pc = "from_yaml" /\ Done)
    => /\ (SomeNameFails /\ Deserializes)
          => (result.kind = "ValidateFailed" /\ result.field = "name")
       /\ result.kind = "Ok" => ~SomeNameFails

\* the test: one prompt, named your-name
C22_Witness ==
    /\ pc = "from_yaml"
    /\ Len(PromptsOf(args.yaml)) = 1
    /\ PromptsOf(args.yaml)[1].name = <<"y", "o", "u", "r", "-", "n", "a", "m", "e">>
    /\ result = ValidateFailed("name", "must match '^[a-zA-Z_$][a-zA-Z_$0-9]*$'")

---------------------------------------------------------------------------
(* C23: the kind of a prompt *)

\* C23: of the entries of type string or number that are accepted, one with
\* 'choices' and 'multi = true' is a MultiSelect, one with 'choices' and no
\* 'multi' a Select, one without 'choices' an Input; an accepted entry of
\* type bool is a Confirm whose default is false unless one is given
C23_PromptKindSelection ==
    (pc = "toml::from_str" /\ result.kind = "Ok")
    => /\ (/\ args.entry.type \in {"string", "number"}
           /\ args.entry.choices # Absent /\ args.entry.multi = Bool(TRUE))
          => result.variant = "MultiSelect"
       /\ (/\ args.entry.type \in {"string", "number"}
           /\ args.entry.choices # Absent /\ args.entry.multi = Absent)
          => result.variant = "Select"
       /\ (args.entry.type \in {"string", "number"} /\ args.entry.choices = Absent)
          => result.variant = "Input"
       /\ args.entry.type = "bool"
          => /\ result.variant = "Confirm"
             /\ result.default =
                  (IF args.entry.default = Absent THEN Bool(FALSE)
                   ELSE args.entry.default)

---------------------------------------------------------------------------
(* C24..C27: conflicts, duplicates and repetition *)

\* something lay at the path when the call began
WasThere(p) == lread(fs0, p).k # "none"

\* C24: the conflict policy applies to planned symlinks as to planned files:
\* when the templated path of a symlink was there before the call, Fail
\* returns the destination-conflict error, SkipExisting leaves the path as it
\* was and the run goes on, Overwrite puts the symlink in its place
C24_SymlinkConflictPolicy ==
    \A e \in LinkEntries :
        (PlanBuilds /\ Done /\ WasThere(DestOf(e)))
        => IF FailPolicy THEN result.kind = "CannotOverwriteContent"
           ELSE IF SkipExistingPolicy
           THEN /\ result # Panic("symlink")
                /\ lread(fs, DestOf(e)) = lread(fs0, DestOf(e))
           ELSE /\ result # Panic("symlink")
                /\ result = Ok => lread(fs, DestOf(e)) = Link(e.c)

\* C25: with overwrite_if_exists and skip_if_exists both set, render() does
\* what Overwrite does: it raises no conflict error, it takes every planned
\* file to the third loop, every iteration of that loop that does not fail
\* writes the planned content to its path, whatever was there, and the call
\* succeeds only when the loop is through
C25_BothFlagsOverwrite ==
    [][(args.overwrite_if_exists /\ args.skip_if_exists)
       => /\ result'.kind # "CannotOverwriteContent"
          /\ (pc = "walk" /\ pc' = "dump") => keys_todo' = DOMAIN file_contents
          /\ (pc = "dump" /\ result' = NoResult)
             => \A p \in keys_todo \ keys_todo' :
                   read(fs', p) = File(file_contents[p])
          /\ result' = Ok => (pc = "dump" /\ keys_todo = {})]_vars

\* with both flags set, README.md was there as a file and holds the rendered
\* content after a successful call
C25_Witness ==
    /\ args.overwrite_if_exists /\ args.skip_if_exists
    /\ result = Ok
    /\ fReadme \in tmpl.entries
    /\ read(fs0, dReadme) = File(<<Lit("old")>>)
    /\ read(fs, dReadme) = File(<<Lit("# "), Lit("demo")>>)

C27_RepeatedRender ==
    (/\ Len(calls) = 1 /\ Done
     /\ calls[1].result = Ok
     /\ output_path = calls[1].output_path
     /\ walked = calls[1].walked
     /\ LinkEntries = {} /\ FileEntries # {})
    => /\ fs = fs0
       /\ IF FailPolicy THEN result.kind = "CannotOverwriteContent"
          ELSE result = Ok

---------------------------------------------------------------------------
(* C28: git credentials *)

\* try_new hands the uri to new_git: an alias with a known scheme part, or
\* no alias and the ending '.git'
ReachesNewGit(uri) ==
    IF IsAlias(uri)
    THEN \E a \in {s_gh, s_gl}, sch \in {<<>>, s_plus_https, s_plus_http, s_plus_ssh} :
            starts_with(uri, a \o sch \o s_colon)
    ELSE ends_with(uri, s_dot_git)

HasKey(key) == key \in DOMAIN args.context

\* C28: git credentials are both or neither: new_git returns
\* AuthMissingPassword for a context with 'username' and no 'password',
\* AuthMissingUsername for one with 'password' and no 'username', and
\* otherwise the auth of the repository is Some exactly when both are there;
\* the check comes before the check of the url prefix
C28_CredentialsBothOrNeither ==
    (pc = "try_new" /\ Done /\ ReachesNewGit(args.uri))
    => /\ (HasKey(s_username) /\ ~HasKey(s_password))
          => result = AuthMissingPassword("git")
       /\ (HasKey(s_password) /\ ~HasKey(s_username))
          => result = AuthMissingUsername("git")
       /\ CredentialsPaired
          => /\ result.kind \in {"Ok", "InvalidRepo"}
             /\ result.kind = "Ok"
                => result.auth =
                     (IF HasKey(s_username)
                      THEN Some([username |-> args.context[s_username],
                                 password |-> args.context[s_password]])
                      ELSE None)

\* a uri with a wrong prefix and a context with a password only: the missing
\* username is reported, not the uri
C28_Witness ==
    /\ pc = "try_new"
    /\ args.uri = <<"h", "t", "t", "p", "x", ":", "/", "/", "a", "b", "c", "/", "h", "e", "l", "l", "o", ".", "g", "i", "t">>
    /\ DOMAIN args.context = {s_password}
    /\ result = AuthMissingUsername("git")

====
